---- MODULE Spec2Model ----
(***************************************************************************)
(* Model of dns_to_doh.py: the UDP listener loop (start_dns_server), the   *)
(* per-datagram handler (handle_dns_query) with its helpers, and the       *)
(* static override table with its two mutators.                            *)
(*                                                                         *)
(* Byte strings are sequences of integers in 0..255.  An IPv4 literal      *)
(* ('10.0.0.5') is the tuple of its four decimal fields; ip_address        *)
(* converts it to the 32-bit integer ipaddress works with.  A socket       *)
(* address is the pair <<ip, port>> (addr[0], addr[1] in the source).      *)
(***************************************************************************)
EXTENDS Integers, Sequences, FiniteSets, TLC

VARIABLES
    static_ip_mappings, \* the module-level dict hostname -> ip literal
    lastOp,             \* most recent call of add/remove (history)
    prevOp,             \* the call of add/remove before lastOp (history)
    adminOps,           \* number of add/remove calls made so far (history)
    adminRaised,        \* exception the last add/remove call raised, or None
    pc,                 \* position of the listener thread
    data, addr,         \* the datagram returned by the last recvfrom
    nrecv,              \* number of datagrams received so far
    path,               \* branch handle_dns_query took for this datagram
    query_hostname,     \* local of handle_dns_query
    static_ip,          \* local of handle_dns_query
    upstream,           \* what requests.post produced for this datagram
    sent,               \* sock.sendto calls made for this datagram
    posts,              \* requests.post calls made for this datagram
    lookups,            \* table membership tests made for this datagram
    hit,                \* outcome of that membership test (history)
    errors,             \* logging.error records written for this datagram
    nerrors             \* logging.error records written so far

vars == <<static_ip_mappings, lastOp, prevOp, adminOps, adminRaised, pc, data,
          addr, nrecv, path, query_hostname, static_ip, upstream, sent, posts,
          lookups, hit, errors, nerrors>>

adminVars == <<static_ip_mappings, lastOp, prevOp, adminOps, adminRaised>>
queryVars == <<pc, data, addr, nrecv, path, query_hostname, static_ip,
               upstream, sent, posts, lookups, hit, errors, nerrors>>

(***************************************************************************)
(* Bounds                                                                  *)
(***************************************************************************)
MaxQueries == 2
MaxAdminOps == 3

(***************************************************************************)
(* Program constants                                                       *)
(***************************************************************************)
RecvBufSize == 512
HTTP_OK == 200

None == "None"
NoIP == <<>>
NoAddr == <<NoIP, 0>>
NoResponse == [kind |-> "none", status |-> 0, exc |-> None, content |-> <<>>]

BOGON_IP_RANGES ==
    << [net |-> <<0, 0, 0, 0>>,         prefix |-> 8],
       [net |-> <<127, 0, 0, 0>>,       prefix |-> 8],
       [net |-> <<169, 254, 0, 0>>,     prefix |-> 16],
       [net |-> <<192, 0, 2, 0>>,       prefix |-> 24],
       [net |-> <<198, 51, 100, 0>>,    prefix |-> 24],
       [net |-> <<203, 0, 113, 0>>,     prefix |-> 24],
       [net |-> <<255, 255, 255, 255>>, prefix |-> 32] >>

(***************************************************************************)
(* Python slices on byte strings: s[:n] and s[n:]                          *)
(***************************************************************************)
SliceTo(s, n) == SubSeq(s, 1, IF Len(s) < n THEN Len(s) ELSE n)
SliceFrom(s, n) == IF Len(s) <= n THEN <<>> ELSE SubSeq(s, n + 1, Len(s))

RECURSIVE Pow2(_)
Pow2(n) == IF n = 0 THEN 1 ELSE 2 * Pow2(n - 1)

(***************************************************************************)
(* ipaddress.ip_address / ip_network / __contains__                        *)
(* The 32-bit integer of an address is kept as its two 16-bit halves       *)
(* <<high, low>>, so that every intermediate value fits a machine word of  *)
(* the checker.                                                            *)
(***************************************************************************)
ip_address(ip) == <<ip[1] * 256 + ip[2], ip[3] * 256 + ip[4]>>

\* x & m for a 16-bit x and the 16-bit mask m made of `ones` leading ones
And16(x, ones) == x - (x % Pow2(16 - ones))

\* other._ip & self.netmask._ip, the netmask being `prefix` leading ones
MaskAnd(ipint, prefix) ==
    IF prefix <= 16
    THEN <<And16(ipint[1], prefix), 0>>
    ELSE <<ipint[1], And16(ipint[2], prefix - 16)>>

\* IPv4Network.__contains__ for an address
ip_in_network(ipint, net) ==
    MaskAnd(ipint, net.prefix) = ip_address(net.net)

\* variant: `return False` inside the loop, so only the first range is tested
is_bogon_ip_first_range(ip) ==
    ip_in_network(ip_address(ip), BOGON_IP_RANGES[1])

is_bogon_ip(ip) ==
    \E i \in 1..Len(BOGON_IP_RANGES) :
        ip_in_network(ip_address(ip), BOGON_IP_RANGES[i])

(***************************************************************************)
(* DNS message helpers of the source                                       *)
(***************************************************************************)
extract_transaction_id(query) == SliceTo(query, 2)

\* variant: the upstream response is relayed as it came
construct_dns_response_relay(original_query, response_data) == response_data

construct_dns_response(original_query, response_data) ==
    extract_transaction_id(original_query) \o SliceFrom(response_data, 2)

parse_dns_query_for_hostname(query) == "example.com"

create_static_ip_dns_response(ip) == <<>>

\* local_response of the bogon branch:
\* b'\x00\x00\x81\x80\x00\x01\x00\x01\x00\x00\x00\x00'
local_response == <<0, 0, 129, 128, 0, 1, 0, 1, 0, 0, 0, 0>>

(***************************************************************************)
(* Inputs                                                                  *)
(***************************************************************************)
\* Hostnames an administrator can pass to add/remove: the name the handler
\* looks up, the same name in upper case, and a subdomain of it.
Hostnames == {"example.com", "EXAMPLE.COM", "sub.example.com"}
MappedIPs == {<<10, 0, 0, 5>>, <<192, 168, 1, 1>>}

\* Datagrams a client can send: empty, one byte, a truncated header, a bare
\* header with transaction ID 0, a full query (ID 0xABCD, QNAME "a"), and a
\* full query for example.com (ID 0x0102).
Queries ==
    { <<>>,
      <<171>>,
      <<171, 205, 1, 0, 0>>,
      <<0, 0, 1, 0, 0, 1, 0, 0, 0, 0, 0, 0>>,
      <<171, 205, 1, 0, 0, 1, 0, 0, 0, 0, 0, 0, 1, 97, 0, 0, 1, 0, 1>>,
      <<1, 2, 1, 0, 0, 1, 0, 0, 0, 0, 0, 0,
        7, 101, 120, 97, 109, 112, 108, 101, 3, 99, 111, 109, 0,
        0, 1, 0, 1>> }

SourceAddrs ==
    { <<<<127, 0, 0, 1>>, 5353>>,
      <<<<10, 0, 0, 7>>, 40000>>,
      <<<<8, 8, 8, 8>>, 53124>> }

\* Bodies an upstream can return: empty, one byte, and a response with
\* transaction ID 0x1234 carrying one A record 93.184.216.34.
Bodies ==
    { <<>>,
      <<18>>,
      <<18, 52, 129, 128, 0, 1, 0, 1, 0, 0, 0, 0, 1, 97, 0, 0, 1, 0, 1,
        192, 12, 0, 1, 0, 1, 0, 0, 0, 60, 0, 4, 93, 184, 216, 34>> }

Statuses == {200, 502}

\* Exceptions requests.post can raise, plus the KeyError of a dict read.
PostExceptions == {"ConnectionError", "SSLError"}
ExceptionClasses == PostExceptions \cup {"KeyError"}

\* variant: `except OSError`, which a KeyError is not
Caught_OSError(exc) == exc \in PostExceptions

\* `except Exception`: every class above derives from Exception.
Caught(exc) == exc \in ExceptionClasses

(***************************************************************************)
(* Initial state: the table is empty, the socket is bound, the loop is     *)
(* about to call recvfrom.                                                 *)
(***************************************************************************)
EmptyTable == [h \in {} |-> NoIP]

NoOp == [op |-> "none", hostname |-> None, ip |-> NoIP]

Init ==
    /\ static_ip_mappings = EmptyTable
    /\ lastOp = NoOp
    /\ prevOp = NoOp
    /\ adminOps = 0
    /\ adminRaised = None
    /\ pc = "recv"
    /\ data = <<>>
    /\ addr = NoAddr
    /\ nrecv = 0
    /\ path = "none"
    /\ query_hostname = None
    /\ static_ip = NoIP
    /\ upstream = NoResponse
    /\ sent = <<>>
    /\ posts = <<>>
    /\ lookups = 0
    /\ hit = "none"
    /\ errors = <<>>
    /\ nerrors = 0

(***************************************************************************)
(* Administrative path: the two mutators of the table.  Nothing in the     *)
(* module calls them; they are entry points for a caller outside the loop  *)
(* and so interleave with the listener's steps.                            *)
(***************************************************************************)
DictSet(d, k, v) == [h \in DOMAIN d \cup {k} |-> IF h = k THEN v ELSE d[h]]
DictDel(d, k) == [h \in DOMAIN d \ {k} |-> d[h]]

\* variant: setdefault, an existing entry keeps its address
add_static_ip_mapping_keep(hostname, ip) ==
    /\ adminOps < MaxAdminOps
    /\ static_ip_mappings' =
           IF hostname \in DOMAIN static_ip_mappings
           THEN static_ip_mappings
           ELSE DictSet(static_ip_mappings, hostname, ip)
    /\ lastOp' = [op |-> "add", hostname |-> hostname, ip |-> ip]
    /\ prevOp' = lastOp
    /\ adminOps' = adminOps + 1
    /\ adminRaised' = None
    /\ UNCHANGED queryVars

add_static_ip_mapping(hostname, ip) ==
    /\ adminOps < MaxAdminOps
    /\ static_ip_mappings' = DictSet(static_ip_mappings, hostname, ip)
    /\ lastOp' = [op |-> "add", hostname |-> hostname, ip |-> ip]
    /\ prevOp' = lastOp
    /\ adminOps' = adminOps + 1
    /\ adminRaised' = None
    /\ UNCHANGED queryVars

\* variant: `del` without the membership test
remove_static_ip_mapping_unguarded(hostname) ==
    /\ adminOps < MaxAdminOps
    /\ IF hostname \in DOMAIN static_ip_mappings
       THEN /\ static_ip_mappings' = DictDel(static_ip_mappings, hostname)
            /\ adminRaised' = None
       ELSE /\ static_ip_mappings' = static_ip_mappings
            /\ adminRaised' = "KeyError"
    /\ lastOp' = [op |-> "remove", hostname |-> hostname, ip |-> NoIP]
    /\ prevOp' = lastOp
    /\ adminOps' = adminOps + 1
    /\ UNCHANGED queryVars

remove_static_ip_mapping(hostname) ==
    /\ adminOps < MaxAdminOps
    /\ static_ip_mappings' =
           IF hostname \in DOMAIN static_ip_mappings
           THEN DictDel(static_ip_mappings, hostname)
           ELSE static_ip_mappings
    /\ lastOp' = [op |-> "remove", hostname |-> hostname, ip |-> NoIP]
    /\ prevOp' = lastOp
    /\ adminOps' = adminOps + 1
    /\ adminRaised' = None
    /\ UNCHANGED queryVars

(***************************************************************************)
(* Listener loop of start_dns_server                                       *)
(***************************************************************************)
\* variant: the reply goes to the DNS port of the source host
sendto_port_53(payload, to) ==
    sent' = Append(sent, [payload |-> payload, to |-> <<to[1], 53>>])

\* sock.sendto(payload, to)
sendto(payload, to) == sent' = Append(sent, [payload |-> payload, to |-> to])

\* An exception leaves handle_dns_query and reaches the loop's handler:
\* `except Exception as e: logging.error(f"Error: {e}")`, then the loop
\* continues; anything the handler does not catch ends start_dns_server.
Raise(exc) ==
    IF Caught(exc)
    THEN /\ pc' = "recv"
         /\ errors' = Append(errors, exc)
         /\ nerrors' = nerrors + 1
    ELSE /\ pc' = "terminated"
         /\ UNCHANGED <<errors, nerrors>>

\* variant: datagrams are also taken while a forward is pending
recvfrom_while_pending ==
    /\ pc \in {"recv", "await"}
    /\ nrecv < MaxQueries
    /\ \E d \in Queries, a \in SourceAddrs :
           /\ data' = SliceTo(d, RecvBufSize)
           /\ addr' = a
    /\ nrecv' = nrecv + 1
    /\ pc' = "handle"
    /\ path' = "none"
    /\ query_hostname' = None
    /\ static_ip' = NoIP
    /\ upstream' = NoResponse
    /\ sent' = <<>>
    /\ posts' = <<>>
    /\ lookups' = 0
    /\ hit' = "none"
    /\ errors' = <<>>
    /\ UNCHANGED <<nerrors, adminVars>>

\* data, addr = sock.recvfrom(512)
recvfrom ==
    /\ pc = "recv"
    /\ nrecv < MaxQueries
    /\ \E d \in Queries, a \in SourceAddrs :
           /\ data' = SliceTo(d, RecvBufSize)
           /\ addr' = a
    /\ nrecv' = nrecv + 1
    /\ pc' = "handle"
    /\ path' = "none"
    /\ query_hostname' = None
    /\ static_ip' = NoIP
    /\ upstream' = NoResponse
    /\ sent' = <<>>
    /\ posts' = <<>>
    /\ lookups' = 0
    /\ hit' = "none"
    /\ errors' = <<>>
    /\ UNCHANGED <<nerrors, adminVars>>

\* variant: the bogon branch without its `return`
handle_bogon_check_no_return ==
    /\ pc = "handle"
    /\ IF is_bogon_ip(addr[1])
       THEN /\ sendto(local_response, addr)
            /\ path' = "block"
       ELSE UNCHANGED <<sent, path>>
    /\ pc' = "lookup"
    /\ UNCHANGED <<data, addr, nrecv, query_hostname, static_ip, upstream,
                   posts, lookups, hit, errors, nerrors, adminVars>>

\* handle_dns_query, lines 137-147: the bogon check on client_ip = addr[0]
handle_bogon_check ==
    /\ pc = "handle"
    /\ IF is_bogon_ip(addr[1])
       THEN /\ sendto(local_response, addr)
            /\ path' = "block"
            /\ pc' = "recv"
       ELSE /\ pc' = "lookup"
            /\ UNCHANGED <<sent, path>>
    /\ UNCHANGED <<data, addr, nrecv, query_hostname, static_ip, upstream,
                   posts, lookups, hit, errors, nerrors, adminVars>>

\* lines 150-151: hostname extraction and the membership test
handle_override_test ==
    /\ pc = "lookup"
    /\ query_hostname' = parse_dns_query_for_hostname(data)
    /\ lookups' = lookups + 1
    /\ IF query_hostname' \in DOMAIN static_ip_mappings
       THEN pc' = "override" /\ hit' = "hit"
       ELSE pc' = "post" /\ hit' = "miss"
    /\ UNCHANGED <<data, addr, nrecv, path, static_ip, upstream, sent, posts,
                   errors, nerrors, adminVars>>

\* variant: the read takes the entry out of the table (dict.pop)
handle_override_reply_pop ==
    /\ pc = "override"
    /\ IF query_hostname \in DOMAIN static_ip_mappings
       THEN /\ static_ip' = static_ip_mappings[query_hostname]
            /\ static_ip_mappings' = DictDel(static_ip_mappings, query_hostname)
            /\ sendto(construct_dns_response(
                          data, create_static_ip_dns_response(static_ip')),
                      addr)
            /\ path' = "override"
            /\ pc' = "recv"
            /\ UNCHANGED <<errors, nerrors>>
       ELSE /\ Raise("KeyError")
            /\ UNCHANGED <<static_ip, sent, path, static_ip_mappings>>
    /\ UNCHANGED <<data, addr, nrecv, query_hostname, upstream, posts,
                   lookups, hit, lastOp, prevOp, adminOps, adminRaised>>

\* lines 153-159: the dict read and the override reply
handle_override_reply ==
    /\ pc = "override"
    /\ IF query_hostname \in DOMAIN static_ip_mappings
       THEN /\ static_ip' = static_ip_mappings[query_hostname]
            /\ sendto(construct_dns_response(
                          data, create_static_ip_dns_response(static_ip')),
                      addr)
            /\ path' = "override"
            /\ pc' = "recv"
            /\ UNCHANGED <<errors, nerrors>>
       ELSE /\ Raise("KeyError")
            /\ UNCHANGED <<static_ip, sent, path>>
    /\ UNCHANGED <<data, addr, nrecv, query_hostname, upstream, posts,
                   lookups, hit, adminVars>>

\* lines 162-167: requests.post(DOH_SERVER, ..., data=data, verify=...) is
\* called without a timeout argument and blocks the loop until it returns
\* or raises.
handle_post ==
    /\ pc = "post"
    /\ posts' = Append(posts, data)
    /\ path' = "forward"
    /\ pc' = "await"
    /\ UNCHANGED <<data, addr, nrecv, query_hostname, static_ip, upstream,
                   sent, lookups, hit, errors, nerrors, adminVars>>

\* variant: a status other than 200 sends the handler back to the POST
post_returns_retry ==
    /\ pc = "await"
    /\ \E status \in Statuses, content \in Bodies :
           /\ upstream' = [kind |-> "http", status |-> status,
                          exc |-> None, content |-> content]
           /\ IF status = HTTP_OK
              THEN /\ sendto(construct_dns_response(data, content), addr)
                   /\ pc' = "recv"
                   /\ UNCHANGED <<errors, nerrors>>
              ELSE /\ errors' = Append(errors, "Error forwarding query")
                   /\ nerrors' = nerrors + 1
                   /\ pc' = "post"
                   /\ UNCHANGED sent
    /\ UNCHANGED <<data, addr, nrecv, path, query_hostname, static_ip, posts,
                   lookups, hit, adminVars>>

\* variant: the body is relayed whatever the status
post_returns_any_status ==
    /\ pc = "await"
    /\ \E status \in Statuses, content \in Bodies :
           /\ upstream' = [kind |-> "http", status |-> status,
                          exc |-> None, content |-> content]
           /\ sendto(construct_dns_response(data, content), addr)
           /\ UNCHANGED <<errors, nerrors>>
    /\ pc' = "recv"
    /\ UNCHANGED <<data, addr, nrecv, path, query_hostname, static_ip, posts,
                   lookups, hit, adminVars>>

\* lines 170-182: requests.post returned a response
post_returns ==
    /\ pc = "await"
    /\ \E status \in Statuses, content \in Bodies :
           /\ upstream' = [kind |-> "http", status |-> status,
                          exc |-> None, content |-> content]
           /\ IF status = HTTP_OK
              THEN /\ sendto(construct_dns_response(data, content), addr)
                   /\ UNCHANGED <<errors, nerrors>>
              ELSE /\ errors' = Append(errors, "Error forwarding query")
                   /\ nerrors' = nerrors + 1
                   /\ UNCHANGED sent
    /\ pc' = "recv"
    /\ UNCHANGED <<data, addr, nrecv, path, query_hostname, static_ip, posts,
                   lookups, hit, adminVars>>

\* requests.post raised (connection refused or reset, TLS failure)
post_raises ==
    /\ pc = "await"
    /\ \E exc \in PostExceptions :
           /\ upstream' = [kind |-> "exception", status |-> 0,
                          exc |-> exc, content |-> <<>>]
           /\ Raise(exc)
    /\ UNCHANGED <<data, addr, nrecv, path, query_hostname, static_ip, sent,
                   posts, lookups, hit, adminVars>>

add == \E h \in Hostnames, ip \in MappedIPs : add_static_ip_mapping(h, ip)
remove == \E h \in Hostnames : remove_static_ip_mapping(h)

Next ==
    \/ recvfrom
    \/ handle_bogon_check
    \/ handle_override_test
    \/ handle_override_reply
    \/ handle_post
    \/ post_returns
    \/ post_raises
    \/ add
    \/ remove

Spec == Init /\ [][Next]_vars

(***************************************************************************)
(* The listener thread keeps running: each of its own steps is taken once  *)
(* it is enabled.  Nothing obliges the upstream to answer or the           *)
(* connection to fail, and nothing obliges an administrator to act.        *)
(***************************************************************************)
FairSpec ==
    /\ Spec
    /\ WF_vars(recvfrom)
    /\ WF_vars(handle_bogon_check)
    /\ WF_vars(handle_override_test)
    /\ WF_vars(handle_override_reply)
    /\ WF_vars(handle_post)

(***************************************************************************)
(* is_bogon_ip on its own: a datagram has just been received from any of   *)
(* the sample addresses and the bogon check is applied to it.              *)
(***************************************************************************)
Octets1 == {0, 1, 10, 100, 126, 127, 128, 169, 172, 192, 198, 203, 224, 255}
Octets2 == {0, 15, 16, 31, 32, 51, 64, 168, 253, 254, 255}
Octets3 == {0, 1, 2, 3, 99, 100, 101, 112, 113, 114, 255}
Octets4 == {0, 1, 254, 255}

SampleIPs ==
    { <<a, b, c, d>> : a \in Octets1, b \in Octets2, c \in Octets3,
                       d \in Octets4 }

InitBogon ==
    /\ static_ip_mappings = EmptyTable
    /\ lastOp = NoOp
    /\ prevOp = NoOp
    /\ adminOps = 0
    /\ adminRaised = None
    /\ pc = "handle"
    /\ data \in {d \in Queries : Len(d) > 12}
    /\ addr \in {<<ip, 5353>> : ip \in SampleIPs}
    /\ nrecv = 1
    /\ path = "none"
    /\ query_hostname = None
    /\ static_ip = NoIP
    /\ upstream = NoResponse
    /\ sent = <<>>
    /\ posts = <<>>
    /\ lookups = 0
    /\ hit = "none"
    /\ errors = <<>>
    /\ nerrors = 0

NextBogon == handle_bogon_check

BogonSpec == InitBogon /\ [][NextBogon]_vars

TypeOK ==
    /\ pc \in {"recv", "handle", "lookup", "override", "post", "await",
               "terminated"}
    /\ path \in {"none", "block", "override", "forward"}
    /\ nrecv \in 0..MaxQueries
    /\ adminOps \in 0..MaxAdminOps
    /\ Len(sent) <= 1

(***************************************************************************)
(* Properties                                                              *)
(***************************************************************************)
MaxOf(a, b) == IF a < b THEN b ELSE a

\* the datagram in hand was forwarded and the upstream answered 200
ForwardedOK == upstream.kind = "http" /\ upstream.status = HTTP_OK

\* C1: when a query that carries a transaction ID (at least two bytes) is
\* forwarded and the upstream answers 200, the one reply sent to the client
\* starts with the query's two ID bytes, and from offset 2 onward it is the
\* upstream body from offset 2 onward, byte for byte, whatever ID the body
\* carries.
C1_Reframed ==
    (ForwardedOK /\ Len(data) >= 2) =>
        /\ Len(sent) = 1
        /\ LET reply == sent[1].payload
               body == upstream.content
           IN /\ Len(reply) >= 2
              /\ reply[1] = data[1]
              /\ reply[2] = data[2]
              /\ \A i \in 3..MaxOf(Len(reply), Len(body)) :
                     /\ i <= Len(reply)
                     /\ i <= Len(body)
                     /\ reply[i] = body[i]

\* a 200 body with a foreign ID and an answer section has been relayed
C1_Witness ==
    /\ ForwardedOK
    /\ Len(data) >= 2
    /\ Len(upstream.content) > 12
    /\ upstream.content[1] /= data[1]
    /\ Len(sent) = 1
    /\ pc = "recv"


(***************************************************************************)
(* Reading a DNS message, and classes of IPv4 address, as the properties   *)
(* use them                                                                *)
(***************************************************************************)
HasHeader(msg) == Len(msg) >= 12
ANCOUNT(msg) == msg[7] * 256 + msg[8]
\* the last resource record of a message ends with RDLENGTH and RDATA
RDLENGTH4(msg) == msg[Len(msg) - 5] * 256 + msg[Len(msg) - 4]
RDATA4(msg) == SubSeq(msg, Len(msg) - 3, Len(msg))

InConfiguredBogonBlock(ip) ==
    \/ ip[1] = 0
    \/ ip[1] = 127
    \/ ip[1] = 169 /\ ip[2] = 254
    \/ ip[1] = 192 /\ ip[2] = 0 /\ ip[3] = 2
    \/ ip[1] = 198 /\ ip[2] = 51 /\ ip[3] = 100
    \/ ip[1] = 203 /\ ip[2] = 0 /\ ip[3] = 113
    \/ ip = <<255, 255, 255, 255>>

IsRFC1918(ip) ==
    \/ ip[1] = 10
    \/ ip[1] = 172 /\ ip[2] \in 16..31
    \/ ip[1] = 192 /\ ip[2] = 168

\* outside every special-purpose, multicast and reserved block
IsGloballyRoutable(ip) ==
    /\ ~InConfiguredBogonBlock(ip)
    /\ ~IsRFC1918(ip)
    /\ ~(ip[1] = 100 /\ ip[2] \in 64..127)
    /\ ~(ip[1] = 192 /\ ip[2] = 0 /\ ip[3] = 0)
    /\ ~(ip[1] = 192 /\ ip[2] = 88 /\ ip[3] = 99)
    /\ ~(ip[1] = 198 /\ ip[2] \in 18..19)
    /\ ip[1] < 224

Received == nrecv > 0
Returned == Received /\ pc = "recv"

\* C2: the reply to an override hit carries the query's transaction ID and
\* one A record (ANCOUNT = 1, RDLENGTH = 4) whose RDATA is the mapped
\* address.
C2_OverrideReply ==
    path = "override" =>
        /\ Len(sent) = 1
        /\ LET reply == sent[1].payload
           IN /\ SliceTo(reply, 2) = SliceTo(data, 2)
              /\ HasHeader(reply)
              /\ ANCOUNT(reply) = 1
              /\ Len(reply) >= 12 + 6
              /\ RDLENGTH4(reply) = 4
              /\ RDATA4(reply) = static_ip

\* C3: the bogon check blocks every address inside a configured block and
\* lets every RFC1918 address and every globally routable address through.
C3_BogonClassification ==
    (Received /\ pc /= "handle") =>
        /\ InConfiguredBogonBlock(addr[1]) => path = "block"
        /\ IsRFC1918(addr[1]) => path /= "block"
        /\ IsGloballyRoutable(addr[1]) => path /= "block"

\* the last address of a /24 documentation block has been blocked
C3_Witness ==
    /\ addr[1] = <<198, 51, 100, 255>>
    /\ path = "block"
    /\ pc = "recv"

\* C4: the reply to a query from a bogon source echoes the query's
\* transaction ID and has ANCOUNT = 0.
C4_BlockReply ==
    (Received /\ path = "block") =>
        /\ Len(sent) = 1
        /\ LET reply == sent[1].payload
           IN /\ HasHeader(reply)
              /\ SliceTo(reply, 2) = SliceTo(data, 2)
              /\ ANCOUNT(reply) = 0

\* C5: a query from a bogon source gets exactly one reply, addressed to its
\* source, and causes neither a table lookup nor a forward.
C5_BogonRepliedOnce ==
    (Received /\ InConfiguredBogonBlock(addr[1])) =>
        /\ lookups = 0
        /\ posts = <<>>
        /\ pc \in {"handle", "recv"}
        /\ pc = "handle" => sent = <<>>
        /\ pc = "recv" => (Len(sent) = 1 /\ sent[1].to = addr)

\* a query from a bogon source has been handled
C5_Witness ==
    /\ Returned
    /\ InConfiguredBogonBlock(addr[1])
    /\ Len(sent) = 1

\* C6: a query shorter than 12 bytes from a non-bogon source gets no reply
\* and is not forwarded.
C6_MalformedDropped ==
    (Received /\ Len(data) < 12 /\ ~InConfiguredBogonBlock(addr[1])) =>
        /\ sent = <<>>
        /\ posts = <<>>

ForwardFailed ==
    \/ upstream.kind = "exception"
    \/ upstream.kind = "http" /\ upstream.status /= HTTP_OK

\* C7: when the forward fails (a status other than 200, or an exception
\* from the HTTPS request) nothing is sent to the client for that query.
C7_FailureNoReply == ForwardFailed => sent = <<>>

\* the upstream answered 502 and the handler has returned
C7_Witness ==
    /\ upstream.kind = "http"
    /\ upstream.status = 502
    /\ Len(upstream.content) > 12
    /\ Returned
    /\ sent = <<>>

\* C8: no error of a single query ends the listener loop: the loop never
\* terminates, and the step that logs an error leaves the loop at its
\* recvfrom call.
C8_ErrorIsolation ==
    /\ [](pc /= "terminated")
    /\ [][nerrors' > nerrors => pc' = "recv"]_vars

\* after a query that ended in an error, a later query has been answered
C8_Witness ==
    /\ nrecv >= 2
    /\ nerrors >= 1
    /\ errors = <<>>
    /\ pc = "recv"
    /\ Len(sent) = 1

\* C9: every received query eventually leaves the handler (replied or
\* dropped), also when the upstream never responds.
C9_ForwardBounded == (pc = "handle") ~> (pc = "recv")

\* C10: an add of (h, ip) leaves h mapped to ip, keeping the key set when h
\* was already present, and an add that repeats the previous call leaves
\* the table as that call left it.
C10_AddIdempotent ==
    [][(adminOps' = adminOps + 1 /\ lastOp'.op = "add") =>
          /\ lastOp'.hostname \in DOMAIN static_ip_mappings'
          /\ static_ip_mappings'[lastOp'.hostname] = lastOp'.ip
          /\ lastOp'.hostname \in DOMAIN static_ip_mappings =>
                 DOMAIN static_ip_mappings' = DOMAIN static_ip_mappings
          /\ lastOp' = lastOp => static_ip_mappings' = static_ip_mappings
      ]_vars

\* the same add has been made twice in a row
C10_Witness ==
    /\ lastOp.op = "add"
    /\ prevOp = lastOp
    /\ adminOps >= 2

\* C11: a remove of an absent hostname raises nothing and leaves the table
\* as it was; a remove of a present hostname removes that entry and leaves
\* every other entry as it was.
C11_RemoveFrame ==
    [][(adminOps' = adminOps + 1 /\ lastOp'.op = "remove") =>
          LET h == lastOp'.hostname
          IN /\ adminRaised' = None
             /\ h \notin DOMAIN static_ip_mappings =>
                    static_ip_mappings' = static_ip_mappings
             /\ h \in DOMAIN static_ip_mappings =>
                    /\ DOMAIN static_ip_mappings' =
                           DOMAIN static_ip_mappings \ {h}
                    /\ \A k \in DOMAIN static_ip_mappings' :
                           static_ip_mappings'[k] = static_ip_mappings[k]
      ]_vars

\* the same remove has been made twice in a row (the second one found no
\* entry) while another entry was in the table
C11_Witness ==
    /\ lastOp.op = "remove"
    /\ prevOp = lastOp
    /\ adminRaised = None
    /\ DOMAIN static_ip_mappings /= {}

(***************************************************************************)
(* Hostnames as the properties read them: folded to lower case, and as     *)
(* the label sequence of a QNAME                                           *)
(***************************************************************************)
CaseFold(h) == IF h = "EXAMPLE.COM" THEN "example.com" ELSE h

LabelsOf(h) ==
    CASE h = "example.com" ->
             << <<101, 120, 97, 109, 112, 108, 101>>, <<99, 111, 109>> >>
      [] h = "sub.example.com" ->
             << <<115, 117, 98>>, <<101, 120, 97, 109, 112, 108, 101>>,
                <<99, 111, 109>> >>
      [] OTHER -> << <<>> >>

\* the labels of the question's QNAME, read from offset 12; an empty label
\* in the result marks a name that runs past the end of the message
RECURSIVE Labels(_, _)
Labels(q, i) ==
    IF i > Len(q) THEN << <<>> >>
    ELSE IF q[i] = 0 THEN <<>>
    ELSE IF i + q[i] > Len(q) THEN << <<>> >>
    ELSE <<SubSeq(q, i + 1, i + q[i])>> \o Labels(q, i + q[i] + 1)

QNAME(q) == Labels(q, 13)

WellFormedQuery(q) ==
    /\ HasHeader(q)
    /\ QNAME(q) /= <<>>
    /\ \A i \in 1..Len(QNAME(q)) : QNAME(q)[i] /= <<>>

\* the step of the listener that tests the table for the query's hostname
LookupStep == pc = "lookup" /\ pc' /= "lookup"

\* C12: the table compares hostnames without regard to letter case and
\* otherwise exactly: a lookup hits exactly when some entry's hostname
\* equals the looked-up one up to case, and after a remove of h no entry
\* equal to h up to case is left.
C12_CaseInsensitiveExact ==
    [][/\ LookupStep =>
             (hit' = "hit" <=>
                  \E k \in DOMAIN static_ip_mappings :
                      CaseFold(k) = CaseFold(query_hostname'))
       /\ (adminOps' = adminOps + 1 /\ lastOp'.op = "remove") =>
             \A k \in DOMAIN static_ip_mappings' :
                 CaseFold(k) /= CaseFold(lastOp'.hostname)
      ]_vars

NoKeyError == \A i \in 1..Len(errors) : errors[i] /= "KeyError"

\* C13: with add/remove running concurrently with the listener, no lookup
\* and no remove fails, and a lookup is atomic: a query for which the entry
\* was found is answered from the table, one for which it was not found is
\* forwarded.
C13_Serialized ==
    /\ NoKeyError
    /\ adminRaised = None
    /\ (Returned /\ hit = "hit") => (path = "override" /\ Len(sent) = 1)
    /\ (Returned /\ hit = "miss") => path = "forward"

\* C14: a query from a non-bogon source whose extracted hostname has an
\* entry is never forwarded and gets its reply from the table.
C14_HitNotForwarded ==
    hit = "hit" =>
        /\ posts = <<>>
        /\ upstream = NoResponse
        /\ pc = "recv" => (Len(sent) = 1 /\ sent[1].to = addr)

\* C15: a well-formed query whose QNAME names a hostname without an entry
\* is forwarded, whatever other entries the table holds.
C15_DecisionByQName ==
    [][(/\ LookupStep
        /\ WellFormedQuery(data)
        /\ \A k \in DOMAIN static_ip_mappings :
               LabelsOf(CaseFold(k)) /= QNAME(data))
          => (pc' = "post" /\ hit' = "miss")
      ]_vars

\* C16: at most one datagram is sent for a received datagram, it goes to
\* the address and port the query came from, and it is the handler's last
\* act for that query (replied, or else dropped with nothing sent).
C16_OneOutcome ==
    /\ Len(sent) <= 1
    /\ \A i \in 1..Len(sent) : sent[i].to = addr
    /\ sent /= <<>> => pc = "recv"

\* a forwarded query has been answered
C16_Witness ==
    /\ Returned
    /\ hit = "miss"
    /\ Len(sent) = 1
    /\ sent[1].to = addr
    /\ addr[2] /= 53

\* C17: a datagram is received only when the handling of the previous one
\* has ended; while a forward is pending the datagram in hand does not
\* change; and every reply is sent for the datagram received last, while
\* it is being handled.
C17_Sequential ==
    [][/\ nrecv' /= nrecv => (pc = "recv" /\ nrecv' = nrecv + 1)
       /\ pc = "await" => (data' = data /\ addr' = addr /\ nrecv' = nrecv)
       /\ (sent' /= sent /\ sent' /= <<>>) =>
              /\ nrecv' = nrecv
              /\ pc /= "recv"
              /\ sent'[Len(sent')].to = addr
      ]_vars

\* a second datagram has been received, forwarded and answered by the
\* upstream
C17_Witness ==
    /\ nrecv >= 2
    /\ Returned
    /\ path = "forward"
    /\ upstream.kind = "http"

\* C18: requests.post is called at most once for a datagram, and after a
\* failed forward the handler is back at recvfrom having made that one
\* call.
C18_NoRetry ==
    /\ Len(posts) <= 1
    /\ ForwardFailed => (Len(posts) = 1 /\ pc = "recv")

\* a forward has failed with an exception and the handler has returned
C18_Witness ==
    /\ upstream.kind = "exception"
    /\ Returned
    /\ Len(posts) = 1
    /\ sent = <<>>

\* C19: the table changes only in a step of add or remove, never in a step
\* of the listener.
C19_EngineReadsOnly ==
    [][static_ip_mappings' /= static_ip_mappings =>
          (adminOps' = adminOps + 1 /\ UNCHANGED queryVars)]_vars

\* an override reply has been sent and the entry it read is still there
C19_Witness ==
    /\ Returned
    /\ path = "override"
    /\ query_hostname \in DOMAIN static_ip_mappings
    /\ static_ip = static_ip_mappings[query_hostname]

\* C20: the reply built from a query and a 200 body is as long as the body.
C20_LengthPreserved ==
    ForwardedOK =>
        /\ Len(sent) = 1
        /\ Len(sent[1].payload) = Len(upstream.content)

====
